---- MODULE Spec2Model ----
(***************************************************************************)
(* File vault: content-addressed upload store with reference counting.     *)
(* Model of backend/files/views.py (FileViewSet) and backend/files/        *)
(* models.py (File).  Every request handler is split at its database       *)
(* accesses: the views hold no lock and open no transaction, so requests   *)
(* served concurrently interleave between any two queries, and every       *)
(* query commits on its own.                                               *)
(*                                                                         *)
(* Framework behaviour the handlers rely on:                               *)
(*  - Model.save() of a loaded instance writes every column by primary     *)
(*    key and inserts the row when no row has that key;                    *)
(*  - Model.delete() removes the row and leaves the FileField's file in    *)
(*    the storage;                                                         *)
(*  - a unique index admits any number of NULLs.                           *)
(***************************************************************************)
EXTENDS Integers, Sequences, FiniteSets, TLC

\* ------------------------------------------------------------------ bounds
NumProcs    == 2    \* request handlers that may run concurrently
MaxOps      == 2    \* requests started in one behaviour
MaxSeqOps   == 3    \* the same, when requests are served one at a time
MaxId       == 2    \* rows (and uploaded blobs) ever inserted
NumContents == 2    \* distinct upload payloads
MaxInitRef  == 2    \* reference count of the row present at start
MaxBulk     == 1    \* length of a bulk request's file_ids
MaxBulkLen  == 3    \* the same, when only bulk_delete requests are served
MaxBulkOps  == 1    \* bulk_delete requests served then
MaxSize     == 2    \* size of a row, where tables are enumerated
MaxNameLen  == 3    \* length of an upload's name, where names are enumerated
MaxNameOps  == 1    \* uploads served then
MaxDay      == 8    \* last day, where the filters are run (day 7: a Monday)
MaxQueries  == 1    \* filtered list requests served then

Procs     == 1..NumProcs
Ids       == 1..MaxId
Contents  == 1..NumContents
\* File names are sequences of characters.
NameA     == <<"a", ".", "t", "x", "t">>
NameB     == <<"b", ".", "t", "x", "t">>
NoName    == <<>>
Filenames == {NameA, NameB}
Tags      == {"x", "y"}
TagLists  == {<<"x">>, <<"x", "x">>, <<"x", "y">>}
MinSizes  == {0, 2}          \* the min_size query parameter; 0: not given

\* ------------------------------------------------------- values and rows
Null == <<>>                 \* file_hash of a row whose hash is not stored

\* _compute_file_hash: SHA-256 of the bytes; equal bytes give equal digests
\* and, in this model, different payloads give different digests.
Hash(c) == <<c>>

\* file_obj.size of payload c
SizeOf(c) == c

\* file_obj.content_type, a sequence of words: the client declares the type
\* of the bytes it sends, and in this model each payload has one type.
TextPlain   == <<"text", "/", "plain">>
ImagePng    == <<"image", "/", "png">>
OctetStream == <<"application", "/", "octet-stream">>
NoType      == <<>>
TypeOf(c) ==
    CASE c = 1 -> TextPlain
      [] c = 2 -> ImagePng
      [] OTHER -> OctetStream

NoCategory == "None"         \* content_category of a row that has none

\* A row of the File table.  file is the storage name of the uploaded blob;
\* uploaded_at is the day of the upload (days are numbered, day 0 a Monday;
\* the runs that have no clock stay on day 0).
Row(id, file, fname, size, hash, rc, tags) ==
    [id |-> id, file |-> file, original_filename |-> fname, size |-> size,
     file_hash |-> hash, reference_count |-> rc, tags |-> tags,
     file_type |-> NoType, file_extension |-> NoName,
     content_category |-> NoCategory, uploaded_at |-> 0]

NoInst == Row(0, 0, NoName, 0, Null, 0, <<>>)

\* File.reference_count default
DefaultReferenceCount == 1

VARIABLES
    files,      \* the File table: a set of rows, at most one per id
    storage,    \* the media storage: a set of [name, content]
    cache,      \* django cache: query key -> cached rows, or NoEntry
    DEBUG,      \* settings.DEBUG
    nextId,     \* rows inserted so far (uuid4 never repeats)
    pc,         \* per handler: where it stands
    local,      \* per handler: its local variables
    started,    \* requests started so far
    limit,      \* requests this behaviour may start
    log         \* responses returned so far, in order of return

vars ==
    <<files, storage, cache, DEBUG, nextId, pc, local, started, limit, log>>

NoEntry == {NoInst}

IdsOf(tbl) == {r.id : r \in tbl}
RowOf(tbl, id) == CHOOSE r \in tbl : r.id = id

\* File.objects.filter(file_hash=h).first()
FindByHash(tbl, h) == {r \in tbl : r.file_hash = h}

\* The unique index on file_hash (NULLs do not collide).
UniqueViolation(tbl, inst) ==
    /\ inst.file_hash # Null
    /\ \E r \in tbl : r.id # inst.id /\ r.file_hash = inst.file_hash

\* ------------------------------------------------------------ File.save
\* str.lower(), on the letters the model's names are made of
Lower(ch) ==
    CASE ch = "A" -> "a"
      [] ch = "B" -> "b"
      [] OTHER -> ch
LowerSeq(s) == [k \in 1..Len(s) |-> Lower(s[k])]

\* str.strip('.'): the dots at both ends are removed
RECURSIVE StripDots(_)
StripDots(s) ==
    IF s = <<>> THEN s
    ELSE IF Head(s) = "." THEN StripDots(Tail(s))
    ELSE IF s[Len(s)] = "." THEN StripDots(SubSeq(s, 1, Len(s) - 1))
    ELSE s

\* str.rfind('.'), counted from 1; 0 when there is none
LastDot(name) ==
    IF \E k \in 1..Len(name) : name[k] = "."
    THEN CHOOSE k \in 1..Len(name) :
             /\ name[k] = "."
             /\ \A j \in (k + 1)..Len(name) : name[j] # "."
    ELSE 0

\* (variant: everything from the last dot on, leading dots included)
SplitExtAnyDot(name) ==
    IF LastDot(name) > 0 THEN SubSeq(name, LastDot(name), Len(name)) ELSE <<>>

\* os.path.splitext(name)[1]: from the last dot on, when a character other
\* than a dot stands before it; otherwise empty.  (An upload's name is a
\* base name: it holds no path separator.)
SplitExt(name) ==
    IF /\ LastDot(name) > 0
       /\ \E k \in 1..(LastDot(name) - 1) : name[k] # "."
    THEN SubSeq(name, LastDot(name), Len(name))
    ELSE <<>>

\* models.py 46-47: ext.lower().strip('.')
FileExtension(name) == StripDots(LowerSeq(SplitExt(name)))

\* 'word' in file_type, on the words of the type
HasWord(type, w) == \E k \in 1..Len(type) : type[k] = w

\* models.py 51-61
ContentCategory(type) ==
    LET main_type == Head(type) IN
    IF main_type \in {"image", "video", "audio"} THEN main_type
    ELSE IF HasWord(type, "pdf") THEN "document"
    ELSE IF HasWord(type, "text") \/ HasWord(type, "document") THEN "document"
    ELSE IF HasWord(type, "zip") \/ HasWord(type, "compressed") THEN "archive"
    ELSE "other"

\* File.save (models.py 43-63): the extension and the category are filled
\* in when the row has none.
ModelSave(inst) ==
    [inst EXCEPT
       !.file_extension =
           IF @ = NoName /\ inst.original_filename # NoName
           THEN FileExtension(inst.original_filename) ELSE @,
       !.content_category =
           IF @ = NoCategory /\ inst.file_type # NoType
           THEN ContentCategory(inst.file_type) ELSE @]

\* (variant: the save inserts, and the row as it was stays)
SaveRowInsert(tbl, inst) == tbl \cup {ModelSave(inst)}

\* Model.save() of a loaded instance: UPDATE of every column by primary key,
\* and an INSERT when the UPDATE matched no row.
SaveRow(tbl, inst) == {r \in tbl : r.id # inst.id} \cup {ModelSave(inst)}

\* (variant: the row is not deleted)
DeleteRowKept(tbl, inst) == tbl

\* instance.delete(): DELETE by primary key; the stored file stays.
DeleteRow(tbl, inst) == {r \in tbl : r.id # inst.id}

EmptyLocal ==
    [content |-> 0, name |-> NoName, ids |-> <<>>, tags |-> <<>>, i |-> 0,
     n |-> 0, errs |-> 0, inst |-> NoInst, acc |-> <<>>]

\* A response as the client sees it, with the request it answers (arg).
\* id, name and count are the row's id, original_filename and
\* reference_count in the body (FileSerializer); for the bulk requests
\* count is deleted_count / updated_count and errors is len(errors).
Resp(op, arg, status, id, name, count, errs, rows) ==
    [op |-> op, arg |-> arg, status |-> status, id |-> id, name |-> name,
     count |-> count, errors |-> errs, rows |-> rows]

\* The upload of a create request.
Upload(c, fn) == [content |-> c, name |-> fn]
NoUpload == Upload(0, NoName)

Idle(p) == pc[p] = "idle"
AllIdle == \A p \in Procs : Idle(p)
\* Handlers are interchangeable: a request is taken by the first idle one.
CanStart(p) ==
    /\ Idle(p)
    /\ started < limit
    /\ \A o \in Procs : o < p => ~Idle(o)

Return(p, r) ==
    /\ pc' = [pc EXCEPT ![p] = "idle"]
    /\ local' = [local EXCEPT ![p] = EmptyLocal]
    /\ log' = Append(log, r)

\* ------------------------------------------------------------------ cache
\* The cache holds what get_queryset stored: the query with its rows as
\* they were when it was stored (the local-memory backend pickles the
\* value, and a pickled QuerySet carries its rows).
QueryKeys == MinSizes

\* get_queryset's filters (the size filter; the others are alike)
ApplyFilters(tbl, q) == {r \in tbl : q = 0 \/ r.size >= q}

CacheHit(q) == cache[q] # NoEntry /\ cache[q] # {} /\ ~DEBUG

\* get_queryset: the cached rows when there are some and DEBUG is off;
\* otherwise the query is built and stored (with its rows) under the key.
QuerysetResult(q) == IF CacheHit(q) THEN cache[q] ELSE ApplyFilters(files, q)
CacheAfterGet(q) ==
    IF CacheHit(q) THEN cache ELSE [cache EXCEPT ![q] = ApplyFilters(files, q)]

\* cache.clear()
Cleared == [q \in QueryKeys |-> NoEntry]

\* ------------------------------------------------------------------- Init
InitRows ==
    {{}} \cup
    {{ModelSave([Row(1, 1, NameA, SizeOf(1), Hash(1), k, <<>>)
                 EXCEPT !.file_type = TypeOf(1)])} : k \in 1..MaxInitRef}

\* The responses of the uploads that built the initial table.
RECURSIVE InitLog(_)
InitLog(k) ==
    IF k = 0 THEN <<>>
    ELSE Append(InitLog(k - 1),
                Resp("create", Upload(1, NameA),
                     IF k = 1 THEN 201 ELSE 200, 1, NameA, k, 0, {}))

Start(n, debug) ==
    /\ limit = n
    /\ files \in InitRows
    /\ storage = {[name |-> r.file, content |-> 1] : r \in files}
    /\ cache = Cleared
    /\ DEBUG \in debug
    /\ nextId = Cardinality(files)
    /\ pc = [p \in Procs |-> "idle"]
    /\ local = [p \in Procs |-> EmptyLocal]
    /\ started = 0
    /\ log = InitLog(IF files = {} THEN 0
                      ELSE (CHOOSE r \in files : TRUE).reference_count)

\* The engine's requests never read the cache into the table, the storage
\* or a response, so the engine is run with DEBUG off; the runs that serve
\* list requests take either setting.
Init == Start(MaxOps, {FALSE})
SeqInit == Start(MaxSeqOps, {FALSE})
AllInit == Start(MaxOps, BOOLEAN)

\* ----------------------------------------------------------------- create
\* views.py 97-99: no file in the request
CreateNoFile(p) ==
    /\ CanStart(p)
    /\ started' = started + 1
    /\ log' = Append(log, Resp("create", NoUpload, 400, 0, NoName, 0, 0, {}))
    /\ UNCHANGED <<files, storage, cache, DEBUG, nextId, pc, local, limit>>

\* views.py 102-107: hash the upload and look for a row with that hash
CreateLookup(p, c, fn) ==
    /\ CanStart(p)
    /\ started' = started + 1
    /\ LET found == FindByHash(files, Hash(c)) IN
       IF found # {}
       THEN /\ pc' = [pc EXCEPT ![p] = "create_increment"]
            /\ local' = [local EXCEPT ![p] =
                   [EmptyLocal EXCEPT !.content = c, !.name = fn,
                                      !.inst = CHOOSE r \in found : TRUE]]
       ELSE /\ pc' = [pc EXCEPT ![p] = "create_insert"]
            /\ local' = [local EXCEPT ![p] =
                   [EmptyLocal EXCEPT !.content = c, !.name = fn]]
    /\ UNCHANGED <<files, storage, cache, DEBUG, nextId, limit, log>>

Request(p) == Upload(local[p].content, local[p].name)

\* (variant: the count is saved as it was read)
NotIncremented(inst) == inst

\* views.py 109: existing_file.reference_count += 1
Incremented(inst) == [inst EXCEPT !.reference_count = @ + 1]

\* views.py 109-115: the duplicate branch
CreateIncrement(p) ==
    /\ pc[p] = "create_increment"
    /\ LET inst == Incremented(local[p].inst) IN
       IF UniqueViolation(files, inst)
       THEN /\ Return(p, Resp("create", Request(p), 500, 0, NoName, 0, 0, {}))
            /\ UNCHANGED files
       ELSE /\ files' = SaveRow(files, inst)
            /\ Return(p, Resp("create", Request(p), 200, inst.id,
                              inst.original_filename, inst.reference_count,
                              0, {}))
    /\ UNCHANGED <<storage, cache, DEBUG, nextId, started, limit>>

\* views.py 118-145: serializer.save() stores the upload under a fresh name
\* and inserts the row, file_hash not yet set.
NewRow(p) ==
    ModelSave([Row(nextId + 1, nextId + 1, local[p].name,
                   SizeOf(local[p].content), Null, DefaultReferenceCount,
                   <<>>)
               EXCEPT !.file_type = TypeOf(local[p].content)])

CreateInsert(p) ==
    /\ pc[p] = "create_insert"
    /\ nextId < MaxId
    /\ nextId' = nextId + 1
    /\ files' = files \cup {NewRow(p)}
    /\ storage' = storage \cup
           {[name |-> nextId + 1, content |-> local[p].content]}
    /\ pc' = [pc EXCEPT ![p] = "create_sethash"]
    /\ local' = [local EXCEPT ![p].inst = NewRow(p)]
    /\ UNCHANGED <<cache, DEBUG, started, limit, log>>

\* views.py 146-153: instance.file_hash = file_hash; instance.save();
\* cache.clear().  The save raises on the unique index, and nothing in
\* create catches it.
CreateSetHash(p) ==
    /\ pc[p] = "create_sethash"
    /\ LET inst == [local[p].inst EXCEPT !.file_hash = Hash(local[p].content)] IN
       IF UniqueViolation(files, inst)
       THEN /\ Return(p, Resp("create", Request(p), 500, 0, NoName, 0, 0, {}))
            /\ UNCHANGED <<files, cache>>
       ELSE /\ files' = SaveRow(files, inst)
            /\ cache' = Cleared
            /\ Return(p, Resp("create", Request(p), 201, inst.id,
                              inst.original_filename, inst.reference_count,
                              0, {}))
    /\ UNCHANGED <<storage, DEBUG, nextId, started, limit>>

\* create, the upload's name taken from names
CreateNamed(p, names) ==
    \/ CreateNoFile(p)
    \/ \E c \in Contents, fn \in names : CreateLookup(p, c, fn)
    \/ CreateIncrement(p)
    \/ CreateInsert(p)
    \/ CreateSetHash(p)

Create(p) == CreateNamed(p, Filenames)

\* ---------------------------------------------------------------- destroy
\* get_object(): get_queryset() (which may store the query in the cache),
\* then a fresh SELECT by primary key.
NoParams == 0

\* views.py 156: instance = self.get_object()
DestroyGet(p, id) ==
    /\ CanStart(p)
    /\ started' = started + 1
    /\ cache' = CacheAfterGet(NoParams)
    /\ IF id \in IdsOf(files)
       THEN /\ pc' = [pc EXCEPT ![p] = "destroy_decide"]
            /\ local' = [local EXCEPT ![p] =
                   [EmptyLocal EXCEPT !.inst = RowOf(files, id)]]
            /\ UNCHANGED log
       ELSE /\ log' = Append(log, Resp("destroy", id, 404, 0, NoName, 0, 0, {}))
            /\ UNCHANGED <<pc, local>>
    /\ UNCHANGED <<files, storage, DEBUG, nextId, limit>>

\* (variant: the comparison off by one)
SharedByUploadsAtOne(inst) == inst.reference_count >= 1

\* views.py 158: if instance.reference_count > 1
SharedByUploads(inst) == inst.reference_count > 1

\* views.py 160: instance.reference_count -= 1
Decremented(inst) == [inst EXCEPT !.reference_count = @ - 1]

\* views.py 158-163: more than one reference: decrement and save
DestroyDecrement(p) ==
    /\ pc[p] = "destroy_decide"
    /\ SharedByUploads(local[p].inst)
    /\ LET inst == Decremented(local[p].inst) IN
       IF UniqueViolation(files, inst)
       THEN /\ Return(p, Resp("destroy", inst.id, 500, 0, NoName, 0, 0, {}))
            /\ UNCHANGED files
       ELSE /\ files' = SaveRow(files, inst)
            /\ Return(p, Resp("destroy", inst.id, 200, inst.id,
                              inst.original_filename, inst.reference_count,
                              0, {}))
    /\ UNCHANGED <<storage, cache, DEBUG, nextId, started, limit>>

\* views.py 164-166: last reference: super().destroy() fetches the object
\* again ...
DestroyReget(p) ==
    /\ pc[p] = "destroy_decide"
    /\ ~SharedByUploads(local[p].inst)
    /\ cache' = CacheAfterGet(NoParams)
    /\ IF local[p].inst.id \in IdsOf(files)
       THEN /\ pc' = [pc EXCEPT ![p] = "destroy_delete"]
            /\ local' = [local EXCEPT ![p].inst = RowOf(files, local[p].inst.id)]
            /\ UNCHANGED log
       ELSE Return(p, Resp("destroy", local[p].inst.id, 404, 0, NoName, 0, 0, {}))
    /\ UNCHANGED <<files, storage, DEBUG, nextId, started, limit>>

\* (variant: the row's file is removed from the storage with the row)
DestroyDeleteFile(p) ==
    /\ pc[p] = "destroy_delete"
    /\ files' = DeleteRow(files, local[p].inst)
    /\ storage' = {b \in storage : b.name # local[p].inst.file}
    /\ Return(p, Resp("destroy", local[p].inst.id, 204, 0, NoName, 0, 0, {}))
    /\ UNCHANGED <<cache, DEBUG, nextId, started, limit>>

\* ... and deletes its row (perform_destroy: instance.delete()).
DestroyDelete(p) ==
    /\ pc[p] = "destroy_delete"
    /\ files' = DeleteRow(files, local[p].inst)
    /\ Return(p, Resp("destroy", local[p].inst.id, 204, 0, NoName, 0, 0, {}))
    /\ UNCHANGED <<storage, cache, DEBUG, nextId, started, limit>>

Destroy(p) ==
    \/ \E id \in Ids : DestroyGet(p, id)
    \/ DestroyDecrement(p)
    \/ DestroyReget(p)
    \/ DestroyDelete(p)

\* ------------------------------------------------------------ bulk_delete
RECURSIVE SeqsUpTo(_, _)
SeqsUpTo(S, n) ==
    IF n = 0 THEN {<<>>}
    ELSE LET shorter == SeqsUpTo(S, n - 1) IN
         shorter \cup {Append(s, x) : s \in shorter, x \in S}

IdLists == SeqsUpTo(Ids, MaxBulk)

\* views.py 326-332: the request's file_ids; none given is a 400
BulkDeleteStart(p, ids) ==
    /\ CanStart(p)
    /\ started' = started + 1
    /\ IF ids = <<>>
       THEN /\ log' = Append(log, Resp("bulk_delete", ids, 400, 0, NoName, 0, 0, {}))
            /\ UNCHANGED <<pc, local>>
       ELSE /\ pc' = [pc EXCEPT ![p] = "bulk_delete_get"]
            /\ local' = [local EXCEPT ![p] =
                   [EmptyLocal EXCEPT !.ids = ids, !.i = 1]]
            /\ UNCHANGED log
    /\ UNCHANGED <<files, storage, cache, DEBUG, nextId, limit>>

\* (variant: the loop ends at the first id that is not found)
BulkDeleteGetStop(p) ==
    /\ pc[p] = "bulk_delete_get"
    /\ local[p].i <= Len(local[p].ids)
    /\ LET id == local[p].ids[local[p].i] IN
       IF id \in IdsOf(files)
       THEN /\ pc' = [pc EXCEPT ![p] = "bulk_delete_write"]
            /\ local' = [local EXCEPT ![p].inst = RowOf(files, id)]
       ELSE /\ local' = [local EXCEPT ![p].errs = @ + 1,
                                      ![p].i = Len(local[p].ids) + 1]
            /\ UNCHANGED pc
    /\ UNCHANGED <<files, storage, cache, DEBUG, nextId, started, limit, log>>

\* views.py 336, 347-348: File.objects.get(id=file_id)
BulkDeleteGet(p) ==
    /\ pc[p] = "bulk_delete_get"
    /\ local[p].i <= Len(local[p].ids)
    /\ LET id == local[p].ids[local[p].i] IN
       IF id \in IdsOf(files)
       THEN /\ pc' = [pc EXCEPT ![p] = "bulk_delete_write"]
            /\ local' = [local EXCEPT ![p].inst = RowOf(files, id)]
       ELSE /\ local' = [local EXCEPT ![p].errs = @ + 1, ![p].i = @ + 1]
            /\ UNCHANGED pc
    /\ UNCHANGED <<files, storage, cache, DEBUG, nextId, started, limit, log>>

\* views.py 338: if file_obj.reference_count > 1
BulkSharedByUploads(inst) == inst.reference_count > 1

\* views.py 338-346, 349-350: decrement and save, or delete the row
BulkDeleteWrite(p) ==
    /\ pc[p] = "bulk_delete_write"
    /\ LET inst == local[p].inst IN
       IF BulkSharedByUploads(inst)
       THEN IF UniqueViolation(files, Decremented(inst))
            THEN /\ local' = [local EXCEPT ![p].errs = @ + 1, ![p].i = @ + 1,
                                           ![p].inst = NoInst]
                 /\ UNCHANGED files
            ELSE /\ files' = SaveRow(files, Decremented(inst))
                 /\ local' = [local EXCEPT ![p].n = @ + 1, ![p].i = @ + 1,
                                           ![p].inst = NoInst]
       ELSE /\ files' = DeleteRow(files, inst)
            /\ local' = [local EXCEPT ![p].n = @ + 1, ![p].i = @ + 1,
                                      ![p].inst = NoInst]
    /\ pc' = [pc EXCEPT ![p] = "bulk_delete_get"]
    /\ UNCHANGED <<storage, cache, DEBUG, nextId, started, limit, log>>

\* views.py 352-359: cache.clear() and the response
BulkDeleteFinish(p) ==
    /\ pc[p] = "bulk_delete_get"
    /\ local[p].i > Len(local[p].ids)
    /\ cache' = Cleared
    /\ Return(p, Resp("bulk_delete", local[p].ids, 200, 0, NoName, local[p].n,
                      local[p].errs, {}))
    /\ UNCHANGED <<files, storage, DEBUG, nextId, started, limit>>

BulkDelete(p) ==
    \/ \E ids \in IdLists : BulkDeleteStart(p, ids)
    \/ BulkDeleteGet(p)
    \/ BulkDeleteWrite(p)
    \/ BulkDeleteFinish(p)

\* --------------------------------------------------------------- bulk_tag
Range(s) == {s[k] : k \in 1..Len(s)}

\* views.py 382-385: current_tags is taken once, before the loop
RECURSIVE AddTags(_, _, _)
AddTags(tags, current_tags, new) ==
    IF new = <<>> THEN tags
    ELSE AddTags(IF Head(new) \notin current_tags
                 THEN Append(tags, Head(new)) ELSE tags,
                 current_tags, Tail(new))

\* views.py 364-371: file_ids and tags; either missing is a 400
BulkTagStart(p, ids, tags) ==
    /\ CanStart(p)
    /\ started' = started + 1
    /\ IF ids = <<>> \/ tags = <<>>
       THEN /\ log' = Append(log, Resp("bulk_tag", ids, 400, 0, NoName, 0, 0, {}))
            /\ UNCHANGED <<pc, local>>
       ELSE /\ pc' = [pc EXCEPT ![p] = "bulk_tag_get"]
            /\ local' = [local EXCEPT ![p] =
                   [EmptyLocal EXCEPT !.ids = ids, !.tags = tags, !.i = 1]]
            /\ UNCHANGED log
    /\ UNCHANGED <<files, storage, cache, DEBUG, nextId, limit>>

\* views.py 375, 389-390
BulkTagGet(p) ==
    /\ pc[p] = "bulk_tag_get"
    /\ local[p].i <= Len(local[p].ids)
    /\ LET id == local[p].ids[local[p].i] IN
       IF id \in IdsOf(files)
       THEN /\ pc' = [pc EXCEPT ![p] = "bulk_tag_save"]
            /\ local' = [local EXCEPT ![p].inst = RowOf(files, id)]
       ELSE /\ local' = [local EXCEPT ![p].errs = @ + 1, ![p].i = @ + 1]
            /\ UNCHANGED pc
    /\ UNCHANGED <<files, storage, cache, DEBUG, nextId, started, limit, log>>

\* views.py 377-388, 391-392
BulkTagSave(p) ==
    /\ pc[p] = "bulk_tag_save"
    /\ LET old  == local[p].inst
           inst == [old EXCEPT !.tags = AddTags(old.tags, Range(old.tags),
                                                local[p].tags)] IN
       IF UniqueViolation(files, inst)
       THEN /\ local' = [local EXCEPT ![p].errs = @ + 1, ![p].i = @ + 1,
                                      ![p].inst = NoInst]
            /\ UNCHANGED files
       ELSE /\ files' = SaveRow(files, inst)
            /\ local' = [local EXCEPT ![p].n = @ + 1, ![p].i = @ + 1,
                                      ![p].inst = NoInst]
    /\ pc' = [pc EXCEPT ![p] = "bulk_tag_get"]
    /\ UNCHANGED <<storage, cache, DEBUG, nextId, started, limit, log>>

\* views.py 394-401
BulkTagFinish(p) ==
    /\ pc[p] = "bulk_tag_get"
    /\ local[p].i > Len(local[p].ids)
    /\ cache' = Cleared
    /\ Return(p, Resp("bulk_tag", local[p].ids, 200, 0, NoName, local[p].n,
                      local[p].errs, {}))
    /\ UNCHANGED <<files, storage, DEBUG, nextId, started, limit>>

BulkTag(p) ==
    \/ \E ids \in IdLists, tags \in TagLists \cup {<<>>} :
           BulkTagStart(p, ids, tags)
    \/ BulkTagGet(p)
    \/ BulkTagSave(p)
    \/ BulkTagFinish(p)

\* ------------------------------------------------------------------- list
\* GET with query parameters q: the rows get_queryset returns
ListFiles(p, q) ==
    /\ CanStart(p)
    /\ started' = started + 1
    /\ cache' = CacheAfterGet(q)
    /\ log' = Append(log, Resp("list", q, 200, 0, NoName, 0, 0, QuerysetResult(q)))
    /\ UNCHANGED <<files, storage, DEBUG, nextId, pc, local, limit>>

\* views.py 18, 92: an entry lives CACHE_TTL seconds
CacheExpire(q) ==
    /\ cache[q] # NoEntry
    /\ cache' = [cache EXCEPT ![q] = NoEntry]
    /\ UNCHANGED <<files, storage, DEBUG, nextId, pc, local, started, limit, log>>

\* ---------------------------------------------------------------- filters
\* A query parameter's value is a sequence of characters; <<>> is a
\* parameter that is absent or empty (both are false in "if min_size and").
\* "^2" stands for the one character SUPERSCRIPT TWO.
DecimalChars == {"0", "1", "2", "3", "4", "5", "6", "7", "8", "9"}
DigitValue(ch) ==
    CASE ch = "0" -> 0 [] ch = "1" -> 1 [] ch = "2" -> 2 [] ch = "3" -> 3
      [] ch = "4" -> 4 [] ch = "5" -> 5 [] ch = "6" -> 6 [] ch = "7" -> 7
      [] ch = "8" -> 8 [] ch = "9" -> 9

\* str.isdigit(): every character is a digit, and there is one; the
\* superscript digits are digits for isdigit
IsDigit(text) ==
    text # <<>> /\ \A k \in 1..Len(text) : text[k] \in DecimalChars \cup {"^2"}

\* int(text) raises ValueError unless every character is a decimal digit
IntRaises(text) == \E k \in 1..Len(text) : text[k] \notin DecimalChars

\* int(text), for decimal digits
RECURSIVE ParseInt(_)
ParseInt(text) ==
    IF text = <<>> THEN 0
    ELSE 10 * ParseInt(SubSeq(text, 1, Len(text) - 1))
         + DigitValue(text[Len(text)])

\* views.py 55, 57 (and 274, 276): if min_size and min_size.isdigit()
SizeGiven(text) == text # <<>> /\ IsDigit(text)

\* date.weekday(): 0 on a Monday
Weekday(day) == day % 7

\* views.py 73-89 (and 292-308), for the shortcuts that need no calendar
InDateRange(r, date_range, today) ==
    CASE date_range = "today" -> r.uploaded_at = today
      [] date_range = "yesterday" -> r.uploaded_at = today - 1
      [] date_range = "this_week" -> r.uploaded_at >= today - Weekday(today)
      [] OTHER -> TRUE

Params(min_size, max_size, date_range) ==
    [min_size |-> min_size, max_size |-> max_size, date_range |-> date_range]

\* views.py 46-89 and _apply_filters_to_queryset (264-310), for requests
\* that give min_size, max_size and date_range: the rows, or raised when
\* int() raises.
CompileFilters(tbl, params, today) ==
    IF \/ SizeGiven(params.min_size) /\ IntRaises(params.min_size)
       \/ SizeGiven(params.max_size) /\ IntRaises(params.max_size)
    THEN [raised |-> TRUE, rows |-> {}]
    ELSE [raised |-> FALSE,
          rows |-> {r \in tbl :
              /\ SizeGiven(params.min_size)
                     => r.size >= ParseInt(params.min_size)
              /\ SizeGiven(params.max_size)
                     => r.size <= ParseInt(params.max_size)
              /\ InDateRange(r, params.date_range, today)}]

\* GET with min_size, max_size and date_range on day today (views.py 30-94):
\* the cached rows when there are some and DEBUG is off; otherwise the
\* filters are compiled and the result is stored under the parameters.  An
\* exception of int() is a 500.
ListFiltered(p, params, today) ==
    /\ CanStart(p)
    /\ \A r \in files : r.uploaded_at <= today
    /\ started' = started + 1
    /\ LET arg == [params |-> params, today |-> today]
           res == CompileFilters(files, params, today) IN
       IF cache[params] # NoEntry /\ cache[params] # {} /\ ~DEBUG
       THEN /\ log' = Append(log, Resp("query", arg, 200, 0, NoName, 0, 0,
                                       cache[params]))
            /\ UNCHANGED cache
       ELSE IF res.raised
       THEN /\ log' = Append(log, Resp("query", arg, 500, 0, NoName, 0, 0, {}))
            /\ UNCHANGED cache
       ELSE /\ log' = Append(log, Resp("query", arg, 200, 0, NoName, 0, 0,
                                       res.rows))
            /\ cache' = [cache EXCEPT ![params] = res.rows]
    /\ UNCHANGED <<files, storage, DEBUG, nextId, pc, local, limit>>

\* ------------------------------------------------------ savings and stats
\* The sum of f over its domain.
RECURSIVE SumDom(_, _)
SumDom(f, D) ==
    IF D = {} THEN 0
    ELSE LET d == CHOOSE x \in D : TRUE IN f[d] + SumDom(f, D \ {d})

\* aggregate(total=Sum(...))['total']: NULL (None) over no rows
None == <<>>
SqlSum(f) == IF DOMAIN f = {} THEN None ELSE <<SumDom(f, DOMAIN f)>>

\* x or 0
OrZero(x) == IF x = None THEN 0 ELSE x[1]

\* round(num / den, 2) in hundredths, for den > 0: the nearest hundredth,
\* a tie going to the even one (computed here on the exact quotient).
Round2(num, den) ==
    LET s == 100 * num
        q == s \div den
        r == s % den IN
    IF 2 * r > den THEN q + 1
    ELSE IF 2 * r < den THEN q
    ELSE IF q % 2 = 0 THEN q ELSE q + 1

Kb == 1024

\* (variant: every upload of a shared row counted as saved)
SavedTermAll(r) == r.size * r.reference_count

\* views.py 172, 195: F('size') * (F('reference_count') - 1)
SavedTerm(r) == r.size * (r.reference_count - 1)

\* views.py 171-173, 194-196
TotalSaved(tbl) ==
    LET shared == {r \in tbl : r.reference_count > 1} IN
    OrZero(SqlSum([id \in IdsOf(shared) |-> SavedTerm(RowOf(shared, id))]))

\* views.py 168-183
Savings(p) ==
    /\ CanStart(p)
    /\ started' = started + 1
    /\ LET total_saved == TotalSaved(files) IN
       log' = Append(log, Resp("savings", 0, 200, 0, NoName, 0, 0,
                  [total_bytes |-> total_saved,
                   total_kb |-> Round2(total_saved, Kb),
                   total_mb |-> Round2(total_saved, Kb * Kb)]))
    /\ UNCHANGED <<files, storage, cache, DEBUG, nextId, pc, local, limit>>

\* views.py 189: File.objects.count()
StatsCount(p) ==
    /\ CanStart(p)
    /\ started' = started + 1
    /\ pc' = [pc EXCEPT ![p] = "stats_uploads"]
    /\ local' = [local EXCEPT ![p] =
           [EmptyLocal EXCEPT !.acc = <<Cardinality(files)>>]]
    /\ UNCHANGED <<files, storage, cache, DEBUG, nextId, limit, log>>

\* (variant: the rows are counted)
TotalUploadsRows(tbl) == Cardinality(tbl)

\* views.py 190: aggregate(total=Sum('reference_count'))['total'] or 0
TotalUploads(tbl) ==
    OrZero(SqlSum([id \in IdsOf(tbl) |-> RowOf(tbl, id).reference_count]))

StatsUploads(p) ==
    /\ pc[p] = "stats_uploads"
    /\ pc' = [pc EXCEPT ![p] = "stats_size"]
    /\ local' = [local EXCEPT ![p].acc = Append(@, TotalUploads(files))]
    /\ UNCHANGED <<files, storage, cache, DEBUG, nextId, started, limit, log>>

\* views.py 193: aggregate(total=Sum('size'))['total'] or 0
TotalSize(tbl) == OrZero(SqlSum([id \in IdsOf(tbl) |-> RowOf(tbl, id).size]))

StatsSize(p) ==
    /\ pc[p] = "stats_size"
    /\ pc' = [pc EXCEPT ![p] = "stats_saved"]
    /\ local' = [local EXCEPT ![p].acc = Append(@, TotalSize(files))]
    /\ UNCHANGED <<files, storage, cache, DEBUG, nextId, started, limit, log>>

\* views.py 194-196
StatsSaved(p) ==
    /\ pc[p] = "stats_saved"
    /\ pc' = [pc EXCEPT ![p] = "stats_render"]
    /\ local' = [local EXCEPT ![p].acc = Append(@, TotalSaved(files))]
    /\ UNCHANGED <<files, storage, cache, DEBUG, nextId, started, limit, log>>

\* round(num / den * 100, 2) in hundredths of a percent; a division by
\* zero raises (None here)
Percent(num, den) == IF den = 0 THEN None ELSE <<Round2(100 * num, den)>>

\* (variant: no test of the denominator)
DedupRatioUnguarded(total_saved, total_size_without_dedup) ==
    Percent(total_saved, total_size_without_dedup)

\* views.py 200, 230
DedupRatio(total_saved, total_size_without_dedup) ==
    IF total_size_without_dedup > 0
    THEN Percent(total_saved, total_size_without_dedup)
    ELSE <<0>>

\* views.py 219
DuplicationRate(total_uploads, unique_files_count) ==
    IF total_uploads > 0
    THEN Percent(total_uploads - unique_files_count, total_uploads)
    ELSE <<0>>

\* views.py 203-206: per file_type, the number of rows and their size
FileTypes(tbl) ==
    {[file_type |-> t,
      count |-> Cardinality({r \in tbl : r.file_type = t}),
      total_size |-> TotalSize({r \in tbl : r.file_type = t})] :
        t \in {r.file_type : r \in tbl}}

\* views.py 199-233: the body, from the results of the four queries
StatsBody(unique_files_count, total_uploads, total_size, total_saved, types) ==
    LET total_size_without_dedup == total_size + total_saved IN
    [unique_files |-> unique_files_count,
     total_uploads |-> total_uploads,
     duplication_rate |-> DuplicationRate(total_uploads, unique_files_count),
     actual_bytes |-> total_size,
     actual_kb |-> Round2(total_size, Kb),
     actual_mb |-> Round2(total_size, Kb * Kb),
     saved_bytes |-> total_saved,
     saved_kb |-> Round2(total_saved, Kb),
     saved_mb |-> Round2(total_saved, Kb * Kb),
     without_dedup_bytes |-> total_size_without_dedup,
     without_dedup_kb |-> Round2(total_size_without_dedup, Kb),
     without_dedup_mb |-> Round2(total_size_without_dedup, Kb * Kb),
     efficiency_percentage |-> DedupRatio(total_saved, total_size_without_dedup),
     file_types |-> types]

\* views.py 203-233: the response; file_types is a lazy query, run when the
\* response is rendered.  A division by zero is a 500.
StatsRender(p) ==
    /\ pc[p] = "stats_render"
    /\ LET acc == local[p].acc
           body == StatsBody(acc[1], acc[2], acc[3], acc[4], FileTypes(files)) IN
       IF body.duplication_rate = None \/ body.efficiency_percentage = None
       THEN Return(p, Resp("stats", 0, 500, 0, NoName, 0, 0, {}))
       ELSE Return(p, Resp("stats", 0, 200, 0, NoName, 0, 0,
                [body EXCEPT !.duplication_rate = @[1],
                             !.efficiency_percentage = @[1]]))
    /\ UNCHANGED <<files, storage, cache, DEBUG, nextId, started, limit>>

Stats(p) ==
    \/ StatsCount(p)
    \/ StatsUploads(p)
    \/ StatsSize(p)
    \/ StatsSaved(p)
    \/ StatsRender(p)

\* ------------------------------------------------------------------- Next
\* The deduplication engine's requests.
Engine(p) ==
    \/ Create(p)
    \/ Destroy(p)
    \/ BulkDelete(p)

\* Every request of the view set.
Step(p) ==
    \/ Engine(p)
    \/ BulkTag(p)
    \/ \E q \in QueryKeys : ListFiles(p, q)

Expire == \E q \in QueryKeys : CacheExpire(q)

\* Requests of the engine, interleaving freely between their queries.  The
\* name of an upload plays no part in what create does with the table and
\* the storage, so here every upload has the same name.
Next ==
    \E p \in Procs :
        \/ CreateNamed(p, {NameA})
        \/ Destroy(p)
        \/ BulkDelete(p)

Spec == Init /\ [][Next]_vars

\* Requests of the engine, one at a time: a single handler serves them.
SeqNext == Engine(1)

SeqSpec == SeqInit /\ [][SeqNext]_vars

\* Every kind of request, one at a time, and the cache's entries expiring.
AllNext == Step(1) \/ Expire

AllSpec == AllInit /\ [][AllNext]_vars

\* Bulk releases only, one at a time, with longer lists of ids.
LongIdLists == SeqsUpTo(Ids, MaxBulkLen)

BulkInit == Start(MaxBulkOps, {FALSE})

BulkNext ==
    \/ \E ids \in LongIdLists : BulkDeleteStart(1, ids)
    \/ BulkDeleteGet(1)
    \/ BulkDeleteWrite(1)
    \/ BulkDeleteFinish(1)

BulkSpec == BulkInit /\ [][BulkNext]_vars

\* savings and stats over any table: Init takes the table from the tables
\* of up to MaxId rows with sizes 0..MaxSize and reference counts
\* 1..MaxInitRef.  (create refuses an empty upload, so a row of size 0 comes
\* from elsewhere; the two views read whatever the table holds.)
AggRows(id) ==
    {ModelSave([Row(id, id, NameA, sz, Hash(id), k, <<>>)
                EXCEPT !.file_type = TypeOf(id)]) :
         sz \in 0..MaxSize, k \in 1..MaxInitRef}

RECURSIVE TablesUpTo(_)
TablesUpTo(n) ==
    IF n = 0 THEN {{}}
    ELSE {t \cup x : t \in TablesUpTo(n - 1),
                     x \in {{}} \cup {{r} : r \in AggRows(n)}}

AggInit ==
    /\ limit = MaxOps
    /\ files \in TablesUpTo(MaxId)
    /\ storage = {[name |-> r.file, content |-> r.id] : r \in files}
    /\ cache = Cleared
    /\ DEBUG = FALSE
    /\ nextId = MaxId
    /\ pc = [p \in Procs |-> "idle"]
    /\ local = [p \in Procs |-> EmptyLocal]
    /\ started = 0
    /\ log = <<>>

AggNext == Savings(1) \/ Stats(1)

AggSpec == AggInit /\ [][AggNext]_vars

\* stats served while ingests and releases run.
StatsNext == \E p \in Procs : Create(p) \/ Destroy(p) \/ Stats(p)

StatsSpec == Init /\ [][StatsNext]_vars

\* Ingests and releases, one at a time, the uploads named with or without
\* an extension.
NameBare   == <<"a">>
FrameNames == Filenames \cup {NameBare}

FrameNext == CreateNamed(1, FrameNames) \/ Destroy(1)

FrameSpec == SeqInit /\ [][FrameNext]_vars

\* Uploads under every name of up to MaxNameLen characters: a dot, a lower
\* case letter, an upper case letter.  (The serializer refuses an empty
\* name.)  The bytes are those of the row that may be there at the start, so
\* an upload is the first of its content or a duplicate.
NameChars == {".", "a", "B"}
NameSeqs  == SeqsUpTo(NameChars, MaxNameLen) \ {<<>>}

ExtInit == Start(MaxNameOps, {FALSE})

ExtNext ==
    \/ \E fn \in NameSeqs : CreateLookup(1, 1, fn)
    \/ CreateIncrement(1)
    \/ CreateInsert(1)
    \/ CreateSetHash(1)

ExtSpec == ExtInit /\ [][ExtNext]_vars

\* Filtered list requests over a table that holds a row of every size
\* 1..MaxSize + 1 for every day up to some day.
SizeTexts  == {<<>>, <<"1">>, <<"2">>, <<"1", "2">>, <<"-", "1">>,
               <<"2", ".", "5">>, <<"^2">>}
DateRanges == {"", "today", "yesterday", "this_week", "last_week"}
FilterKeys ==
    {Params(a, b, d) : a \in SizeTexts, b \in SizeTexts, d \in DateRanges}
Days == 0..MaxDay

GridRows(last) ==
    {[ModelSave([Row(d * (MaxSize + 1) + sz, d * (MaxSize + 1) + sz, NameA,
                     sz, Hash(d * (MaxSize + 1) + sz),
                     DefaultReferenceCount, <<>>)
                 EXCEPT !.file_type = TextPlain])
      EXCEPT !.uploaded_at = d] : sz \in 1..(MaxSize + 1), d \in 0..last}

FilterInit ==
    /\ limit = MaxQueries
    /\ files \in {GridRows(last) : last \in Days}
    /\ storage = {[name |-> r.file, content |-> r.id] : r \in files}
    /\ cache = [k \in FilterKeys |-> NoEntry]
    /\ DEBUG = FALSE
    /\ nextId = Cardinality(files)
    /\ pc = [p \in Procs |-> "idle"]
    /\ local = [p \in Procs |-> EmptyLocal]
    /\ started = 0
    /\ log = <<>>

FilterNext ==
    \E params \in FilterKeys, today \in Days : ListFiltered(1, params, today)

FilterSpec == FilterInit /\ [][FilterNext]_vars

\* ================================================================= claims
LastResp == log[Len(log)]
Returned == Len(log) > 0

IsIngest(r) == r.op = "create" /\ r.status \in {200, 201}
IsRelease(r) == r.op = "destroy"

\* Responses so far that satisfy P
CountResp(P(_)) == Cardinality({i \in 1..Len(log) : P(log[i])})

\* C1: once N concurrent ingests of the same never-stored content have all
\* finished (and nothing else ran), there is exactly one row with that
\* content's hash and its reference_count is N.
C1_OneRecordCountN ==
    \A c \in Contents :
        ( /\ AllIdle
          /\ started = Len(log)
          /\ Returned
          /\ \A i \in 1..Len(log) :
                 log[i].op = "create" /\ log[i].arg.content = c )
        => \E r \in files :
               /\ FindByHash(files, Hash(c)) = {r}
               /\ r.reference_count = Len(log)

\* C2: no reference-count update is lost: with every request finished, and
\* only ingests and releases served, a row that was never deleted counts the
\* ingests that returned it minus the releases that returned Decremented.
C2_NoLostUpdate ==
    \A r \in files :
        ( /\ AllIdle
          /\ r.file_hash # Null
          /\ \A i \in 1..Len(log) :
                 /\ log[i].op \in {"create", "destroy"}
                 /\ ~(log[i].op = "destroy" /\ log[i].status = 204) )
        => r.reference_count =
               CountResp(LAMBDA x : IsIngest(x) /\ x.id = r.id)
               - CountResp(LAMBDA x : IsRelease(x) /\ x.status = 200
                                      /\ x.id = r.id)

\* C3: every row has reference_count >= 1, under any interleaving of
\* ingests, releases and bulk releases; and a row just created (its hash
\* not yet stored) has reference_count exactly 1.
C3_ReferenceCountFloor ==
    \A r \in files :
        /\ r.reference_count >= 1
        /\ r.file_hash = Null => r.reference_count = 1

\* C3 witness: two releases of a row with count 2 interleaved, both
\* answered "decremented to 1", and the row still counts 1.
C3_Witness ==
    /\ Len(log) >= 2
    /\ LET a == log[Len(log) - 1]
           b == LastResp IN
       /\ IsRelease(a) /\ IsRelease(b)
       /\ a.status = 200 /\ b.status = 200
       /\ a.id = b.id /\ a.count = 1 /\ b.count = 1
       /\ \E r \in files : r.id = a.id /\ r.reference_count = 1

\* C4: a row without a hash exists only while the ingest that inserted it
\* is between its two saves; once that ingest has ended, no such row is left.
C4_NoNullFingerprint ==
    \A r \in files :
        r.file_hash = Null =>
            \E p \in Procs :
                pc[p] = "create_sethash" /\ local[p].inst.id = r.id

\* C5: an ingest that inserted its row and then meets the unique index
\* (another ingest stored the same hash first) does not fail: it answers
\* 200 with the row the other ingest created.
C5_RaceRecovered ==
    [][\A p \in Procs :
          ( /\ pc[p] = "create_sethash"
            /\ pc'[p] = "idle"
            /\ FindByHash(files, Hash(local[p].content)) # {} )
          => /\ LastResp'.status = 200
             /\ \E r \in FindByHash(files, Hash(local[p].content)) :
                    LastResp'.id = r.id]_vars

\* C6: served one after the other, two ingests of the same content answer
\* with the same row id, the second with 200 (not new) and a count one
\* higher, whatever filename it declares; the first ingest ever of a
\* content answers 201 (new) with count 1, and the stored filename stays.
C6_SequentialIngest ==
    /\ \A i \in 1..Len(log) :
           ( /\ IsIngest(log[i])
             /\ \A j \in 1..(i - 1) :
                    ~(log[j].op = "create"
                      /\ log[j].arg.content = log[i].arg.content) )
           => log[i].status = 201 /\ log[i].count = 1
    /\ \A i \in 1..(Len(log) - 1) :
           ( /\ IsIngest(log[i])
             /\ log[i + 1].op = "create"
             /\ log[i + 1].arg.content = log[i].arg.content )
           => /\ log[i + 1].status = 200
              /\ log[i + 1].id = log[i].id
              /\ log[i + 1].count = log[i].count + 1
              /\ log[i + 1].name = log[i].name

\* C6 witness: a first upload as b.txt answered new with count 1, then the
\* same bytes as a.txt answered with the same row, count 2, name b.txt.
C6_Witness ==
    /\ Len(log) = 2
    /\ IsIngest(log[1]) /\ IsIngest(log[2])
    /\ log[1].status = 201 /\ log[1].arg.name = NameB
    /\ log[2].status = 200 /\ log[2].arg.name = NameA
    /\ log[2].arg.content = log[1].arg.content
    /\ \E r \in files :
           /\ r.id = log[2].id
           /\ r.reference_count = 2
           /\ r.original_filename = NameB

\* What a release answers when the response before it (an ingest or a
\* release of the same row) showed count n: Decremented(n - 1), or Deleted.
FollowsCount(a, b) ==
    IF a.count > 1
    THEN b.status = 200 /\ b.id = a.id /\ b.count = a.count - 1
    ELSE b.status = 204

\* C7: served one after the other with nothing in between, k releases of a
\* row with count k answer Decremented(k-1), ..., Decremented(1), Deleted:
\* each release answers one less than the response before it showed, and
\* Deleted after count 1.  After Deleted the row is gone, and one more
\* release answers NotFound and leaves table and storage as they were.
C7_ReleaseLifecycle ==
    /\ [](\A i \in 1..(Len(log) - 1) :
             LET a == log[i]
                 b == log[i + 1] IN
             IsRelease(b) =>
                 /\ (a.op \in {"create", "destroy"} /\ a.status \in {200, 201}
                     /\ a.id = b.arg) => FollowsCount(a, b)
                 /\ (IsRelease(a) /\ a.status = 204 /\ a.arg = b.arg)
                        => b.status = 404)
    /\ []((Returned /\ IsRelease(LastResp) /\ LastResp.status = 204)
             => LastResp.arg \notin IdsOf(files))
    /\ [][(Len(log') > Len(log) /\ IsRelease(LastResp')
           /\ LastResp'.status = 404)
          => files' = files /\ storage' = storage]_vars

\* C7 witness: a row with count k = MaxInitRef released k + 1 times in a
\* row: Decremented(k-1), ..., Decremented(1), Deleted, NotFound.
C7_Witness ==
    LET k == MaxInitRef IN
    /\ Len(log) = 2 * k + 1
    /\ IsIngest(log[k]) /\ log[k].count = k
    /\ \A i \in (k + 1)..(2 * k + 1) :
           IsRelease(log[i]) /\ log[i].arg = log[k].id
    /\ \A i \in 1..(k - 1) :
           log[k + i].status = 200 /\ log[k + i].count = k - i
    /\ log[2 * k].status = 204
    /\ log[2 * k + 1].status = 404
    /\ files = {}

\* C8: a release that deletes the row (destroy, or bulk_delete's step for
\* one id, on a row with reference_count 1) removes the row's blob from the
\* storage in the same operation.
C8_BlobRemovedWithRow ==
    [][\A p \in Procs :
          ( \/ pc[p] = "destroy_delete" /\ pc'[p] = "idle"
            \/ /\ pc[p] = "bulk_delete_write"
               /\ pc'[p] = "bulk_delete_get"
               /\ ~BulkSharedByUploads(local[p].inst) )
          => /\ local[p].inst.id \notin IdsOf(files')
             /\ \A b \in storage' : b.name # local[p].inst.file]_vars

\* C9: the storage never holds two blobs with the same content.
C9_OneBlobPerContent ==
    \A b1, b2 \in storage : b1.content = b2.content => b1.name = b2.name

\* C10: every successful mutation (create, duplicate ingest, decrement,
\* delete, bulk_delete, bulk_tag) has cleared the cache when it returns, so
\* a query served after it gets the rows as they are now, never rows
\* cached before it.
C10_MutationInvalidatesCache ==
    [][/\ ( /\ Len(log') > Len(log)
            /\ LastResp'.op \in {"create", "destroy", "bulk_delete", "bulk_tag"}
            /\ LastResp'.status \in {200, 201, 204} )
          => cache' = Cleared
       /\ (Len(log') > Len(log) /\ LastResp'.op = "list")
          => LastResp'.rows = ApplyFilters(files', LastResp'.arg)]_vars

\* What destroy does to the table for one id (views.py 155-166).
ReleaseOne(tbl, id) ==
    LET inst == RowOf(tbl, id) IN
    IF SharedByUploads(inst)
    THEN SaveRow(tbl, Decremented(inst))
    ELSE DeleteRow(tbl, inst)

\* C11: bulk_delete goes through its file_ids in order and past every id
\* that fails: an id that is not found adds one error and changes nothing,
\* an id that is found changes the table as a single destroy of it would
\* and adds one to deleted_count; so while the loop runs deleted_count +
\* len(errors) is the number of ids done, and in the response it is the
\* number of ids requested.
C11_BulkReleaseContinues ==
    /\ [](\A p \in Procs :
             pc[p] \in {"bulk_delete_get", "bulk_delete_write"}
             => local[p].n + local[p].errs = local[p].i - 1)
    /\ [](\A k \in 1..Len(log) :
             (log[k].op = "bulk_delete" /\ log[k].status = 200)
             => log[k].count + log[k].errors = Len(log[k].arg))
    /\ [][\A p \in Procs :
            LET l == local[p]
                id == l.ids[l.i] IN
            /\ (pc[p] = "bulk_delete_get" /\ l.i <= Len(l.ids)
                /\ id \notin IdsOf(files))
               => /\ files' = files
                  /\ pc'[p] = "bulk_delete_get"
                  /\ local'[p].i = l.i + 1
                  /\ local'[p].errs = l.errs + 1
                  /\ local'[p].n = l.n
            /\ (pc[p] = "bulk_delete_get" /\ l.i <= Len(l.ids)
                /\ id \in IdsOf(files))
               => pc'[p] = "bulk_delete_write" /\ files' = files
            /\ pc[p] = "bulk_delete_write"
               => /\ files' = ReleaseOne(files, id)
                  /\ local'[p].i = l.i + 1
                  /\ local'[p].n = l.n + 1
                  /\ local'[p].errs = l.errs
            /\ (pc[p] = "bulk_delete_get" /\ pc'[p] = "idle")
               => l.i = Len(l.ids) + 1]_vars

\* C11 witness: a bulk_delete whose first id was not found and whose later
\* ids were released: one error, and every other id counted.
C11_Witness ==
    /\ Returned
    /\ LastResp.op = "bulk_delete" /\ LastResp.status = 200
    /\ Len(LastResp.arg) >= 2
    /\ LastResp.arg[1] = MaxId
    /\ LastResp.errors = 1
    /\ LastResp.count = Len(LastResp.arg) - 1

\* File.saved_space (models.py 36-41)
SavedSpace(r) ==
    IF r.reference_count > 1 THEN r.size * (r.reference_count - 1) ELSE 0

SumSavedSpace(tbl) ==
    SumDom([id \in IdsOf(tbl) |-> SavedSpace(RowOf(tbl, id))], IdsOf(tbl))

Answers(op) == Len(log') > Len(log) /\ LastResp'.op = op

\* C12: whatever the table holds, savings answers total_bytes = the sum of
\* saved_space over the rows (size * (reference_count - 1) for a row with
\* reference_count > 1, 0 for the others); so 0 for the empty table and
\* for a table whose rows all have reference_count 1.
C12_SavingsIsSumOfSavedSpace ==
    [][Answers("savings")
       => /\ LastResp'.status = 200
          /\ LastResp'.rows.total_bytes = SumSavedSpace(files)
          /\ (\A r \in files : r.reference_count = 1)
                 => LastResp'.rows.total_bytes = 0]_vars

\* C12 witness: savings answered for a table with a row counted once and a
\* shared row, both of size MaxSize: MaxSize * (MaxInitRef - 1) bytes.
C12_Witness ==
    /\ Returned
    /\ LastResp.op = "savings"
    /\ LastResp.rows.total_bytes = MaxSize * (MaxInitRef - 1)
    /\ \E r1, r2 \in files :
           /\ r1.reference_count = 1 /\ r1.size = MaxSize
           /\ r2.reference_count = MaxInitRef /\ r2.size = MaxSize

\* C13: with no request changing the table during the call, stats answers
\* unique_files = the number of rows, total_uploads = the sum of
\* reference_count, actual_bytes = the sum of size, saved_bytes = what
\* savings answers, and without_dedup_bytes = actual_bytes + saved_bytes,
\* which is the sum of size * reference_count.
C13_StatsTotals ==
    [][Answers("stats")
       => LET b == LastResp'.rows
              ids == IdsOf(files) IN
          /\ LastResp'.status = 200
          /\ b.unique_files = Cardinality(files)
          /\ b.total_uploads =
                 SumDom([id \in ids |-> RowOf(files, id).reference_count], ids)
          /\ b.actual_bytes = SumDom([id \in ids |-> RowOf(files, id).size], ids)
          /\ b.saved_bytes = SumSavedSpace(files)
          /\ b.saved_bytes = TotalSaved(files)
          /\ b.without_dedup_bytes = b.actual_bytes + b.saved_bytes
          /\ b.without_dedup_bytes =
                 SumDom([id \in ids |-> RowOf(files, id).size
                                        * RowOf(files, id).reference_count],
                        ids)]_vars

\* C13 witness: stats answered for two rows of different sizes, one of
\* them shared: 2 rows, more uploads than rows, bytes saved.
C13_Witness ==
    /\ Returned
    /\ LastResp.op = "stats" /\ LastResp.status = 200
    /\ LastResp.rows.unique_files = 2
    /\ LastResp.rows.total_uploads = 1 + MaxInitRef
    /\ LastResp.rows.saved_bytes > 0
    /\ LastResp.rows.actual_bytes > LastResp.rows.saved_bytes
    /\ \E r1, r2 \in files : r1.size # r2.size

\* C14: stats never fails on a zero denominator: it answers 200 for every
\* table, with duplication_rate = (total_uploads - unique_files) /
\* total_uploads * 100, and 0 when total_uploads is 0, and
\* efficiency_percentage = saved_bytes / (actual_bytes + saved_bytes) * 100,
\* and 0 when that denominator is 0 (both rounded to the hundredth); the
\* empty table and a table whose rows all have size 0 included.
C14_StatsRatesTotal ==
    [][Answers("stats")
       => LET b == LastResp'.rows IN
          /\ LastResp'.status = 200
          /\ b.duplication_rate =
                 IF b.total_uploads = 0 THEN 0
                 ELSE Round2(100 * (b.total_uploads - b.unique_files),
                             b.total_uploads)
          /\ b.efficiency_percentage =
                 IF b.actual_bytes + b.saved_bytes = 0 THEN 0
                 ELSE Round2(100 * b.saved_bytes,
                             b.actual_bytes + b.saved_bytes)
          /\ files = {} => b.duplication_rate = 0 /\ b.efficiency_percentage = 0
          /\ (\A r \in files : r.size = 0) => b.efficiency_percentage = 0]_vars

\* C14 witness: stats answered 200 for a table of shared rows that all have
\* size 0: the duplication rate is positive, the efficiency 0.
C14_Witness ==
    /\ Returned
    /\ LastResp.op = "stats" /\ LastResp.status = 200
    /\ files # {}
    /\ \A r \in files : r.size = 0 /\ r.reference_count > 1
    /\ LastResp.rows.duplication_rate > 0
    /\ LastResp.rows.efficiency_percentage = 0

\* C15: a duplicate ingest changes nothing but the reference_count of the
\* row it found, which goes up by one: every other column of that row (id,
\* file, file_hash, original_filename, file_type, size, file_extension,
\* content_category, tags) is as before, whatever name the request
\* declares, and every other row and the storage are as before.
C15_DuplicateIngestFrame ==
    [][\A p \in Procs :
          (pc[p] = "create_increment" /\ pc'[p] = "idle")
          => LET old == RowOf(files, local[p].inst.id) IN
             /\ LastResp'.status = 200
             /\ local[p].inst.id \in IdsOf(files)
             /\ files' = (files \ {old})
                           \cup {[old EXCEPT !.reference_count = @ + 1]}
             /\ storage' = storage]_vars

\* C15 witness: bytes first uploaded under a name without extension, then
\* again as a.txt: the row keeps its name and its empty extension, and
\* counts 2.
C15_Witness ==
    /\ Len(log) >= 2
    /\ LET a == log[Len(log) - 1]
           b == LastResp IN
       /\ IsIngest(a) /\ a.status = 201 /\ a.arg.name = NameBare
       /\ IsIngest(b) /\ b.status = 200 /\ b.arg.name = NameA
       /\ b.id = a.id
       /\ \E r \in files :
              /\ r.id = b.id
              /\ r.original_filename = NameBare
              /\ r.file_extension = NoName
              /\ r.reference_count = 2

NoDuplicates(s) == \A j, k \in 1..Len(s) : s[j] = s[k] => j = k

\* C16: when bulk_tag saves a row whose tags held no duplicate, the saved
\* tags hold no duplicate, they are the tags the row had and the tags
\* requested, and adding the same request to them again changes nothing;
\* also when the request repeats a tag or names one the row has.
C16_TagsDeduplicated ==
    [][\A p \in Procs :
          ( /\ pc[p] = "bulk_tag_save"
            /\ files' # files
            /\ NoDuplicates(local[p].inst.tags) )
          => LET new == RowOf(files', local[p].inst.id).tags IN
             /\ NoDuplicates(new)
             /\ Range(new) = Range(local[p].inst.tags) \cup Range(local[p].tags)
             /\ AddTags(new, Range(new), local[p].tags) = new]_vars

HasDot(name) == \E k \in 1..Len(name) : name[k] = "."
AfterLastDot(name) == SubSeq(name, LastDot(name) + 1, Len(name))
BeforeLastDot(name) == SubSeq(name, 1, LastDot(name) - 1)
OnlyDots(s) == \A k \in 1..Len(s) : s[k] = "."

\* C17: the extension stored with a row is the text after the last dot of
\* its name, lower-cased, and it is empty exactly when the name holds no
\* dot; for names with several dots, names that start with a dot and
\* names that end with a dot too.
C17_ExtensionAfterLastDot ==
    \A r \in files :
        LET name == r.original_filename IN
        /\ r.file_extension =
               IF HasDot(name) THEN LowerSeq(AfterLastDot(name)) ELSE NoName
        /\ r.file_extension = NoName <=> ~HasDot(name)

\* C17, amended: the extension stored with a row is the text after the
\* last dot of its name, lower-cased and without a dot, when a character
\* other than a dot stands before that dot; otherwise it is empty.  So it
\* is empty exactly when the name holds no dot, or holds nothing but dots
\* before its last dot (a name that starts with its only dot), or ends
\* with a dot.
C17_ExtensionOfName ==
    \A r \in files :
        LET name == r.original_filename
            ext  == r.file_extension
            none == ~HasDot(name) \/ OnlyDots(BeforeLastDot(name)) IN
        /\ ext = IF none THEN NoName ELSE LowerSeq(AfterLastDot(name))
        /\ ~HasDot(ext)
        /\ ext = NoName <=> (none \/ name[Len(name)] = ".")

\* C17 witness: a row stored under a name of MaxNameLen characters whose
\* only dot is the first character and whose last is a letter: the
\* extension is empty.
C17_Witness ==
    \E r \in files :
        /\ Len(r.original_filename) = MaxNameLen
        /\ LastDot(r.original_filename) = 1
        /\ r.original_filename[MaxNameLen] = "B"
        /\ r.file_extension = NoName
        /\ r.file_hash # Null

\* A non-negative decimal number, as a query parameter's text
DecimalNumber(text) ==
    text # <<>> /\ \A k \in 1..Len(text) : text[k] \in DecimalChars

\* The most recent Monday: the last day up to today that is a Monday
MostRecentMonday(today) ==
    CHOOSE d \in 0..today :
        d % 7 = 0 /\ \A e \in (d + 1)..today : e % 7 # 0

\* C18: a list request with min_size, max_size and date_range (this_week or
\* none) is answered with exactly the rows that satisfy every active
\* filter: min_size <= size <= max_size, both ends included, and uploaded
\* on or after the most recent Monday; a min_size or max_size that is not a
\* non-negative decimal number is ignored.
C18_FiltersExact ==
    [][( /\ Answers("query")
         /\ LastResp'.arg.params.date_range \in {"", "this_week"} )
       => LET q == LastResp'.arg.params
              today == LastResp'.arg.today IN
          /\ LastResp'.status = 200
          /\ LastResp'.rows =
                 {r \in files :
                     /\ DecimalNumber(q.min_size)
                            => r.size >= ParseInt(q.min_size)
                     /\ DecimalNumber(q.max_size)
                            => r.size <= ParseInt(q.max_size)
                     /\ q.date_range = "this_week"
                            => r.uploaded_at >= MostRecentMonday(today)}]_vars

\* C19: a row that has been deleted is never brought back: a step that
\* adds a row to the table is the insert of a new row (an id never used
\* before), never the save of a request that read a row before another
\* request deleted it.
C19_NoResurrection ==
    [][\A id \in IdsOf(files') \ IdsOf(files) : id > nextId]_vars

\* C20: with ingests and releases running between the queries of stats,
\* every stats response still has 0 <= duplication_rate <= 100 (percent, in
\* hundredths here), unique_files <= total_uploads and saved_bytes <=
\* without_dedup_bytes.
C20_StatsConsistent ==
    \A k \in 1..Len(log) :
        (log[k].op = "stats" /\ log[k].status = 200)
        => LET b == log[k].rows IN
           /\ 0 <= b.duplication_rate /\ b.duplication_rate <= 100 * 100
           /\ b.unique_files <= b.total_uploads
           /\ b.saved_bytes <= b.without_dedup_bytes

\* The storage holds the file of row r, with the bytes r's hash was
\* computed from.
BlobPresent(r) ==
    \E b \in storage : b.name = r.file /\ Hash(b.content) = r.file_hash

\* C21: in every state, under any interleaving of ingests, releases and
\* bulk releases, every row whose file_hash is set has its file in the
\* storage.
C21_BlobPresent ==
    \A r \in files : r.file_hash # Null => BlobPresent(r)

\* C21 witness: a row that a release deleted (204) and the save of a
\* request that had read it before brought back: its file is still in
\* the storage.
C21_Witness ==
    \E k \in 1..Len(log) :
        /\ IsRelease(log[k]) /\ log[k].status = 204
        /\ \E r \in files :
               /\ r.id = log[k].arg
               /\ r.file_hash # Null
               /\ BlobPresent(r)

====
